---- MODULE Spec2Model ----
(***************************************************************************)
(* Maze Escape (rohanjoshi-fynd/maze-game): the maze generator, the path   *)
(* finder, the player's collision resolution, the navigation aids and the  *)
(* level progression of the game loop.                                     *)
(*                                                                         *)
(* Lengths are fixed-point numbers counted in tenths of a world unit, so   *)
(* CELL_SIZE = 1 is 10, PLAYER_RADIUS = 0.3 is 3, and so on.  Grid         *)
(* coordinates are plain integers.                                         *)
(***************************************************************************)
EXTENDS Integers, Sequences, FiniteSets, TLC

VARIABLES
    level,          \* Game.level
    width,          \* Maze.width
    height,         \* Maze.height
    grid,           \* Maze.grid: grid[z][x], 1 = wall, 0 = open; << >> is null
    startPosition,  \* Maze.startPosition, << >> is null
    exitPosition,   \* Maze.exitPosition, << >> is null
    mazeBoxes,      \* Maze.wallBoundingBoxes
    visited,        \* carvePassages: the local Set visited
    stack,          \* carvePassages: the local array stack
    pc,             \* position inside Maze.generate
    pushes,         \* number of stack.push calls made by carvePassages
    oob,            \* TRUE once carvePassages used an index outside the grid
    rnd,            \* the values Math.random() returns to carvePassages
    draws,          \* number of Math.random() calls carvePassages made so far
    position,       \* Player.position
    playerBoxes,    \* Player.wallBoundingBoxes
    pathQuery,      \* the calls of Maze.showPath that are kept, the last call
                    \* first (only SpecPair keeps the call before it): << >>
                    \* before any call,
                    \* else << [origin, path, shown] >> with the position
                    \* asked about, the value of findPath (<< >> is null)
                    \* and the value showPath returned
    isRunning,      \* Game.isRunning
    hasWon,         \* Game.hasWon
    isLoading,      \* Game.isLoading
    hintsRemaining, \* Game.hintsRemaining
    timers,         \* number of pending setTimeout(() => this.nextLevel())
    isLocked,       \* Player.isLocked
    isActive,       \* NavigationAids.isActive
    duckCount,      \* NavigationAids.duckCount
    chalkCount,     \* NavigationAids.chalkCount
    ducks,          \* NavigationAids.ducks, as its length
    duckLights,     \* NavigationAids.duckLights, as its length
    chalkMarks,     \* NavigationAids.chalkMarks, as its length
    duckModelLoaded,\* NavigationAids.duckModelLoaded
    playerPosition, \* NavigationAids.playerPosition, << >> is undefined
    wallMeshes,     \* NavigationAids.wallMeshes, as its length
    pointerLockElement, \* document.pointerLockElement === document.body
    lockRequest,    \* a requestPointerLock() the browser has not answered
    exitRequest,    \* an exitPointerLock() the browser has not carried out
    reported,       \* the error types the onError callback was called with
                    \* by the last keydown of a marker key
    intersects,     \* the result of the last intersectObjects of
                    \* placeChalkMark: << >> when the ray met no wall, else
                    \* << d >> with the distance d of intersects[0]
    duckPosition,   \* the x and z of the position of the duck pushed last
                    \* onto NavigationAids.ducks, << >> while the list is
                    \* empty
    ringQuery       \* the last call of Maze.findTeleportPosition: << >>
                    \* before any call, else << [candidates, chosen] >> with
                    \* the array candidates and the position returned
                    \* (<< >> is null)

mazeVars == << width, height, grid, startPosition, exitPosition, mazeBoxes >>
carveVars == << visited, stack, pc, pushes, oob >>
rngVars == << rnd, draws >>
playerVars == << position, playerBoxes >>

gameVars == << isRunning, hasWon, isLoading, hintsRemaining, timers >>
navVars == << isActive, duckCount, chalkCount, ducks, duckLights, chalkMarks,
             duckModelLoaded, playerPosition, wallMeshes, reported,
             intersects, duckPosition >>
queryVars == << pathQuery, ringQuery >>
browserVars == << pointerLockElement, lockRequest, exitRequest >>
sessionVars == << gameVars, isLocked, navVars, browserVars >>

vars == << level, mazeVars, carveVars, rngVars, playerVars, queryVars,
           sessionVars >>

-----------------------------------------------------------------------------
(* Bounds of the model *)

MaxGenLevel == 1    \* levels whose maze is carved step by step
RandPeriod == 3     \* the stream of random values repeats after this many
MaxSizeLevel == 60  \* levels whose maze size is computed
PlayFree == 2       \* entries of the random stream that vary when playing
MaxOutside == 10    \* how far outside the grid the player is followed
MaxSessionLevel == 2  \* the last level a session advances to

-----------------------------------------------------------------------------
(* Constants of maze.js *)

WALL_HEIGHT == 30
CELL_SIZE == 10
MIN_SIZE == 11
MAX_SIZE == 51
SIZE_INCREMENT == 4

Min(a, b) == IF a < b THEN a ELSE b

Cell(x, z) == [x |-> x, z |-> z]


-----------------------------------------------------------------------------
(* Maze.getSizeForLevel *)

getSizeForLevel_Unclamped(lv) == MIN_SIZE + (lv - 1) * SIZE_INCREMENT

getSizeForLevel(lv) == Min(MIN_SIZE + (lv - 1) * SIZE_INCREMENT, MAX_SIZE)

(* Maze.createEmptyGrid *)
createEmptyGrid_Open(w, h) == [z \in 0 .. h - 1 |-> [x \in 0 .. w - 1 |-> 0]]

createEmptyGrid(w, h) == [z \in 0 .. h - 1 |-> [x \in 0 .. w - 1 |-> 1]]

InGrid(g, x, z) == z \in DOMAIN g /\ x \in DOMAIN g[z]

(* Maze.getUnvisitedNeighbors *)
directions2 == << [dx |-> 0, dz |-> -2], [dx |-> 0, dz |-> 2],
                  [dx |-> -2, dz |-> 0], [dx |-> 2, dz |-> 0] >>

NeighborInside_NoLowerBound(nx, nz, w, h) == nx < w - 1 /\ nz < h - 1

NeighborInside(nx, nz, w, h) == nx > 0 /\ nx < w - 1 /\ nz > 0 /\ nz < h - 1

RECURSIVE NeighborsFrom(_, _, _, _, _, _)
NeighborsFrom(i, x, z, vis, w, h) ==
    IF i > Len(directions2) THEN << >>
    ELSE LET nx == x + directions2[i].dx
             nz == z + directions2[i].dz
             rest == NeighborsFrom(i + 1, x, z, vis, w, h)
         IN IF NeighborInside(nx, nz, w, h) /\ Cell(nx, nz) \notin vis
            THEN << Cell(nx, nz) >> \o rest
            ELSE rest

getUnvisitedNeighbors(x, z, vis, w, h) == NeighborsFrom(1, x, z, vis, w, h)

\* Math.random() is one of 0/RandDen .. (RandDen-1)/RandDen; a cell has at
\* most Len(directions2) neighbours to choose from, so this resolution lets
\* Math.floor(Math.random() * n) take every index 0 .. n-1
RandDen == Len(directions2)

RandomStreams == [0 .. RandPeriod - 1 -> 0 .. RandDen - 1]

\* Math.floor(Math.random() * n) for the d-th call of Math.random()
RandomIndex(stream, d, n) == (stream[d % RandPeriod] * n) \div RandDen

(* Maze.carvePassages, lines 108-112: open the wall cell between current  *)
(* and next, then next itself.  A write whose row index is outside the     *)
(* grid throws; one whose column index is outside the row adds a property  *)
(* to the row array and changes no cell of the grid.                       *)
SetCell(g, x, z, v) == [g EXCEPT ![z] = [@ EXCEPT ![x] = v]]

WriteOpen(g, x, z) == IF InGrid(g, x, z) THEN SetCell(g, x, z, 0) ELSE g

CarveBetween_NoWall(g, current, next) == WriteOpen(g, next.x, next.z)

CarveBetween(g, current, next) ==
    LET wallX == current.x + (next.x - current.x) \div 2
        wallZ == current.z + (next.z - current.z) \div 2
    IN WriteOpen(WriteOpen(g, wallX, wallZ), next.x, next.z)

CarveThrows(g, current, next) ==
    LET wallZ == current.z + (next.z - current.z) \div 2
    IN wallZ \notin DOMAIN g \/ next.z \notin DOMAIN g

CarveOutside(g, current, next) ==
    LET wallX == current.x + (next.x - current.x) \div 2
        wallZ == current.z + (next.z - current.z) \div 2
    IN ~InGrid(g, wallX, wallZ) \/ ~InGrid(g, next.x, next.z)

(* Maze.carvePassages: the state of the loop is the record                 *)
(*   [grid, visited, stack, draws, pushes, oob, thrown]                    *)
CarveStart(g, d) ==
    [grid |-> SetCell(g, 1, 1, 0), visited |-> {Cell(1, 1)},
     stack |-> << Cell(1, 1) >>, draws |-> d, pushes |-> 1, oob |-> FALSE,
     thrown |-> FALSE]

CarveStep(c, w, h, stream) ==
    LET current == c.stack[Len(c.stack)]
        neighbors == getUnvisitedNeighbors(current.x, current.z, c.visited, w, h)
    IN IF Len(neighbors) = 0
       THEN [c EXCEPT !.stack = SubSeq(c.stack, 1, Len(c.stack) - 1)]
       ELSE LET next == neighbors[RandomIndex(stream, c.draws, Len(neighbors)) + 1]
            IN IF CarveThrows(c.grid, current, next)
               THEN [c EXCEPT !.oob = TRUE, !.thrown = TRUE, !.draws = @ + 1]
               ELSE [c EXCEPT !.grid = CarveBetween(c.grid, current, next),
                              !.oob = @ \/ CarveOutside(c.grid, current, next),
                              !.visited = @ \cup {next},
                              !.stack = Append(@, next),
                              !.draws = @ + 1,
                              !.pushes = @ + 1]

(* Maze.createWalls, lines 209-231: one Box3 per wall cell, row by row *)
WallBox(x, z) ==
    [min |-> [x |-> x * CELL_SIZE - CELL_SIZE \div 2, y |-> 0,
              z |-> z * CELL_SIZE - CELL_SIZE \div 2],
     max |-> [x |-> x * CELL_SIZE + CELL_SIZE \div 2, y |-> WALL_HEIGHT,
              z |-> z * CELL_SIZE + CELL_SIZE \div 2]]

RECURSIVE RowWalls(_, _, _, _)
RowWalls(x, z, g, w) ==
    IF x >= w THEN << >>
    ELSE IF g[z][x] = 1
         THEN << WallBox(x, z) >> \o RowWalls(x + 1, z, g, w)
         ELSE RowWalls(x + 1, z, g, w)

RECURSIVE WallsFrom(_, _, _, _)
WallsFrom(z, g, w, h) ==
    IF z >= h THEN << >>
    ELSE RowWalls(0, z, g, w) \o WallsFrom(z + 1, g, w, h)

createWalls(g, w, h) == WallsFrom(0, g, w, h)

Vec(x, y, z) == [x |-> x, y |-> y, z |-> z]

\* Math.round(v / CELL_SIZE): the nearest integer, a half rounds up
RoundDiv(v, d) == (2 * v + d) \div (2 * d)

(* Maze.worldToGrid *)
worldToGrid(worldX, worldZ) ==
    Cell(RoundDiv(worldX, CELL_SIZE), RoundDiv(worldZ, CELL_SIZE))

(* Maze.generate, lines 54-59 *)
StartPositionOf(w, h) == Vec(1 * CELL_SIZE, 15, 1 * CELL_SIZE)

ExitPositionOf_Border(w, h) == Vec((w - 1) * CELL_SIZE, 0, (h - 1) * CELL_SIZE)

ExitPositionOf(w, h) == Vec((w - 2) * CELL_SIZE, 0, (h - 2) * CELL_SIZE)

-----------------------------------------------------------------------------
(* Constants of player.js *)

PLAYER_RADIUS == 3
PLAYER_HEIGHT == 16

(* THREE.Box3.intersectsBox: boxes that only touch do intersect *)
intersectsBox_Strict(a, b) ==
    ~(\/ b.max.x <= a.min.x \/ b.min.x >= a.max.x
      \/ b.max.y <= a.min.y \/ b.min.y >= a.max.y
      \/ b.max.z <= a.min.z \/ b.min.z >= a.max.z)

intersectsBox(a, b) ==
    ~(\/ b.max.x < a.min.x \/ b.min.x > a.max.x
      \/ b.max.y < a.min.y \/ b.min.y > a.max.y
      \/ b.max.z < a.min.z \/ b.min.z > a.max.z)

(* Player.checkCollision *)
PlayerBox_Point(pos) ==
    [min |-> Vec(pos.x, 0, pos.z), max |-> Vec(pos.x, PLAYER_HEIGHT, pos.z)]

PlayerBox(pos) ==
    [min |-> Vec(pos.x - PLAYER_RADIUS, 0, pos.z - PLAYER_RADIUS),
     max |-> Vec(pos.x + PLAYER_RADIUS, PLAYER_HEIGHT, pos.z + PLAYER_RADIUS)]

checkCollision_FirstBox(pos, boxes) ==
    LET playerBox == PlayerBox(pos)
    IN Len(boxes) > 0 /\ intersectsBox(playerBox, boxes[1])

checkCollision(pos, boxes) ==
    LET playerBox == PlayerBox(pos)
    IN \E i \in 1 .. Len(boxes) : intersectsBox(playerBox, boxes[i])

(* Player.moveWithCollision *)
moveWithCollision_StaleX(pos, movement, boxes) ==
    LET newPosX == [pos EXCEPT !.x = @ + movement.x]
        afterX == IF ~checkCollision(newPosX, boxes) THEN newPosX ELSE pos
        newPosZ == [pos EXCEPT !.z = @ + movement.z]
    IN IF ~checkCollision(newPosZ, boxes)
       THEN [afterX EXCEPT !.z = newPosZ.z]
       ELSE afterX

moveWithCollision(pos, movement, boxes) ==
    LET newPosX == [pos EXCEPT !.x = @ + movement.x]
        afterX == IF ~checkCollision(newPosX, boxes) THEN newPosX ELSE pos
        newPosZ == [afterX EXCEPT !.z = @ + movement.z]
    IN IF ~checkCollision(newPosZ, boxes)
       THEN [afterX EXCEPT !.z = newPosZ.z]
       ELSE afterX

(* Player.setWallBoundingBoxes, lines 98-100 *)
setWallBoundingBoxes_Keeps(boxes) == playerBoxes' = playerBoxes

setWallBoundingBoxes(boxes) == playerBoxes' = boxes

-----------------------------------------------------------------------------
(* Maze.findPath *)

directions1_Diagonal == << [dx |-> 0, dz |-> -1], [dx |-> 0, dz |-> 1],
                           [dx |-> -1, dz |-> 0], [dx |-> 1, dz |-> 1] >>

directions1 == << [dx |-> 0, dz |-> -1], [dx |-> 0, dz |-> 1],
                  [dx |-> -1, dz |-> 0], [dx |-> 1, dz |-> 0] >>

\* lines 452-453: the neighbour is inside the grid, open and not yet visited
CanEnter_IgnoresWalls(g, w, h, nx, nz, vis) ==
    /\ nx >= 0 /\ nx < w /\ nz >= 0 /\ nz < h
    /\ Cell(nx, nz) \notin vis

CanEnter(g, w, h, nx, nz, vis) ==
    /\ nx >= 0 /\ nx < w /\ nz >= 0 /\ nz < h
    /\ g[nz][nx] = 0
    /\ Cell(nx, nz) \notin vis

\* lines 447-457: the for loop over the directions, from direction i on;
\* s is [queue, visited, result, done]
RECURSIVE PushNeighbors_ThroughWalls(_, _, _, _, _, _)
PushNeighbors_ThroughWalls(i, path, s, g, w, h) ==
    IF i > Len(directions1) THEN s
    ELSE LET current == path[Len(path)]
             nx == current.x + directions1[i].dx
             nz == current.z + directions1[i].dz
         IN IF CanEnter_IgnoresWalls(g, w, h, nx, nz, s.visited)
            THEN PushNeighbors_ThroughWalls(i + 1, path,
                    [s EXCEPT !.visited = @ \cup {Cell(nx, nz)},
                              !.queue = Append(@, Append(path, Cell(nx, nz)))],
                    g, w, h)
            ELSE PushNeighbors_ThroughWalls(i + 1, path, s, g, w, h)

RECURSIVE PushNeighbors(_, _, _, _, _, _)
PushNeighbors(i, path, s, g, w, h) ==
    IF i > Len(directions1) THEN s
    ELSE LET current == path[Len(path)]
             nx == current.x + directions1[i].dx
             nz == current.z + directions1[i].dz
         IN IF CanEnter(g, w, h, nx, nz, s.visited)
            THEN PushNeighbors(i + 1, path,
                    [s EXCEPT !.visited = @ \cup {Cell(nx, nz)},
                              !.queue = Append(@, Append(path, Cell(nx, nz)))],
                    g, w, h)
            ELSE PushNeighbors(i + 1, path, s, g, w, h)

\* lines 439-458: one iteration of the while loop
FindPathStep(s, end, g, w, h) ==
    IF s.done THEN s
    ELSE IF Len(s.queue) = 0 THEN [s EXCEPT !.done = TRUE]
    ELSE LET path == Head(s.queue)
             current == path[Len(path)]
         IN IF current.x = end.x /\ current.z = end.z
            THEN [s EXCEPT !.result = path, !.done = TRUE]
            ELSE PushNeighbors(1, path, [s EXCEPT !.queue = Tail(@)], g, w, h)

RECURSIVE FindPathLoop(_, _, _, _, _)
FindPathLoop(s, end, g, w, h) ==
    IF s.done THEN s
    ELSE LET s1 == FindPathStep(s, end, g, w, h)
             s2 == FindPathStep(s1, end, g, w, h)
             s3 == FindPathStep(s2, end, g, w, h)
             s4 == FindPathStep(s3, end, g, w, h)
         IN FindPathLoop(s4, end, g, w, h)

\* the value findPath returns; << >> is null
findPath(startWorldX, startWorldZ, exitPos, g, w, h) ==
    LET start == worldToGrid(startWorldX, startWorldZ)
        end == worldToGrid(exitPos.x, exitPos.z)
    IN FindPathLoop([queue |-> << << start >> >>, visited |-> {start},
                     result |-> << >>, done |-> FALSE], end, g, w, h).result

(* Maze.showPath, lines 467-471 and 490 *)
showPath_OffByOne(path) == ~(path = << >> \/ Len(path) <= 2)

showPath(path) == ~(path = << >> \/ Len(path) < 2)

-----------------------------------------------------------------------------
(* Maze.generate as a whole: carvePassages runs until the stack is empty *)

CarveNext(c, w, h, stream) ==
    IF Len(c.stack) = 0 \/ c.thrown THEN c ELSE CarveStep(c, w, h, stream)

RECURSIVE CarveAll(_, _, _, _)
CarveAll(c, w, h, stream) ==
    IF Len(c.stack) = 0 \/ c.thrown THEN c
    ELSE LET c1 == CarveNext(c, w, h, stream)
             c2 == CarveNext(c1, w, h, stream)
             c3 == CarveNext(c2, w, h, stream)
             c4 == CarveNext(c3, w, h, stream)
         IN CarveAll(c4, w, h, stream)

carvePassages(g, d, w, h, stream) == CarveAll(CarveStart(g, d), w, h, stream)

-----------------------------------------------------------------------------
(* The state after the constructors of Maze and Player *)

InitMaze ==
    /\ width = 0
    /\ height = 0
    /\ grid = << >>
    /\ startPosition = << >>
    /\ exitPosition = << >>
    /\ mazeBoxes = << >>
    /\ visited = {}
    /\ stack = << >>
    /\ pc = "idle"
    /\ pushes = 0
    /\ oob = FALSE
    /\ draws = 0

InitPlayer ==
    /\ position = Vec(0, 0, 0)
    /\ playerBoxes = << >>
    /\ isLocked = FALSE
    /\ pathQuery = << >>
    /\ ringQuery = << >>

(* Constants of navigation.js and of the game's main file *)
DUCK_LIMIT == 8
CHALK_LIMIT == 12
CHALK_RANGE == 20
HINTS_PER_LEVEL == 2

\* Game's constructor, lines 23-28
InitGame ==
    /\ isRunning = FALSE
    /\ hasWon = FALSE
    /\ isLoading = TRUE
    /\ hintsRemaining = HINTS_PER_LEVEL
    /\ timers = 0

\* NavigationAids' constructor, lines 14-26
InitNavigation ==
    /\ wallMeshes = 0
    /\ ducks = 0
    /\ duckLights = 0
    /\ duckCount = DUCK_LIMIT
    /\ duckModelLoaded = FALSE
    /\ chalkMarks = 0
    /\ chalkCount = CHALK_LIMIT
    /\ isActive = FALSE
    /\ playerPosition = << >>
    /\ reported = << >>
    /\ intersects = << >>
    /\ duckPosition = << >>

\* the page as it is loaded: the pointer is free
InitBrowser ==
    /\ pointerLockElement = FALSE
    /\ lockRequest = FALSE
    /\ exitRequest = FALSE

InitSession == InitGame /\ InitNavigation /\ InitBrowser

-----------------------------------------------------------------------------
(* Maze.generate, with carvePassages taken one loop iteration at a time *)

InitGen ==
    /\ level \in 1 .. MaxGenLevel
    /\ rnd \in RandomStreams
    /\ InitMaze
    /\ InitPlayer
    /\ InitSession

\* generate, lines 45-52, and carvePassages up to its loop, lines 89-97
GenerateBegin ==
    /\ pc = "idle"
    /\ LET w == getSizeForLevel(level)
           c == CarveStart(createEmptyGrid(w, w), draws)
       IN /\ width' = w
          /\ height' = w
          /\ grid' = c.grid
          /\ visited' = c.visited
          /\ stack' = c.stack
          /\ pushes' = c.pushes
          /\ oob' = c.oob
    /\ mazeBoxes' = << >>
    /\ pc' = "carving"
    /\ UNCHANGED << level, startPosition, exitPosition, rngVars, playerVars,
                    queryVars, sessionVars >>

\* one iteration of the while loop of carvePassages, lines 99-116
CarveLoop ==
    /\ pc = "carving"
    /\ Len(stack) > 0
    /\ LET c == CarveStep([grid |-> grid, visited |-> visited, stack |-> stack,
                           draws |-> draws, pushes |-> pushes, oob |-> oob,
                           thrown |-> FALSE], width, height, rnd)
       IN /\ grid' = c.grid
          /\ visited' = c.visited
          /\ stack' = c.stack
          /\ draws' = c.draws
          /\ pushes' = c.pushes
          /\ oob' = c.oob
          /\ pc' = IF c.thrown THEN "thrown" ELSE pc
    /\ UNCHANGED << level, width, height, startPosition, exitPosition,
                    mazeBoxes, rnd, playerVars, queryVars,
                    sessionVars >>

\* the loop ends; generate, lines 54-61
GenerateEnd ==
    /\ pc = "carving"
    /\ Len(stack) = 0
    /\ startPosition' = << StartPositionOf(width, height) >>
    /\ exitPosition' = << ExitPositionOf(width, height) >>
    /\ mazeBoxes' = createWalls(grid, width, height)
    /\ pc' = "done"
    /\ UNCHANGED << level, width, height, grid, visited, stack, pushes, oob,
                    rngVars, playerVars, queryVars, sessionVars >>

NextGen == GenerateBegin \/ CarveLoop \/ GenerateEnd

SpecGen == InitGen /\ [][NextGen]_vars

-----------------------------------------------------------------------------
(* The level sizing policy alone: generate, lines 48-49, at any level *)

InitSize ==
    /\ level \in 1 .. MaxSizeLevel
    /\ rnd \in {[i \in 0 .. RandPeriod - 1 |-> 0]}
    /\ InitMaze
    /\ InitPlayer
    /\ InitSession

SizeForLevel ==
    /\ pc = "idle"
    /\ width' = getSizeForLevel(level)
    /\ height' = width'
    /\ pc' = "sized"
    /\ UNCHANGED << level, grid, visited, stack, pushes, oob, startPosition,
                    exitPosition, mazeBoxes, rngVars, playerVars, queryVars,
                    sessionVars >>

NextSize == SizeForLevel

SpecSize == InitSize /\ [][NextSize]_vars

-----------------------------------------------------------------------------
(* Playing a level: Game.init generates the maze and sets up the player,   *)
(* then every frame Player.update moves the player.                        *)

\* the random streams whose entries from PlayFree on are 0
PlayStreams == {s \in RandomStreams : \A i \in DOMAIN s : i >= PlayFree => s[i] = 0}

\* Game's constructor, line 25: the game starts at level 1
InitPlay ==
    /\ level = 1
    /\ rnd \in PlayStreams
    /\ InitMaze
    /\ InitPlayer
    /\ InitSession

\* Maze.generate(lv), run to completion
Generate(lv) ==
    \E w \in {getSizeForLevel(lv)} :
    \E c \in {carvePassages(createEmptyGrid(w, w), draws, w, w, rnd)} :
       /\ width' = w
       /\ height' = w
       /\ grid' = c.grid
       /\ visited' = c.visited
       /\ stack' = c.stack
       /\ pushes' = c.pushes
       /\ oob' = c.oob
       /\ draws' = c.draws
       /\ IF c.thrown
          THEN /\ pc' = "thrown"
               /\ mazeBoxes' = << >>
               /\ UNCHANGED << startPosition, exitPosition >>
          ELSE /\ pc' = "done"
               /\ startPosition' = << StartPositionOf(w, w) >>
               /\ exitPosition' = << ExitPositionOf(w, w) >>
               /\ mazeBoxes' = createWalls(c.grid, w, w)

\* Game.init, lines 56-58: maze.generate and setupPlayer
StartLevel ==
    /\ pc = "idle"
    /\ Generate(level)
    /\ IF pc' = "done"
       THEN /\ position' = startPosition'[1]
            /\ setWallBoundingBoxes(mazeBoxes')
       ELSE UNCHANGED playerVars
    /\ UNCHANGED << level, rnd, queryVars, sessionVars >>

\* the movement vectors of Player.update, lines 110-132: the direction the
\* camera looks in scaled by MOVE_SPEED * deltaTime, any vector
DeltaVals == {-20, -2, 0, 2, 20}

Movements == {[x |-> dx, z |-> dz] : dx \in DeltaVals, dz \in DeltaVals}

Followed(pos) ==
    /\ pos.x >= -MaxOutside /\ pos.x <= (width - 1) * CELL_SIZE + MaxOutside
    /\ pos.z >= -MaxOutside /\ pos.z <= (height - 1) * CELL_SIZE + MaxOutside

\* Player.update, line 135
Move(movement) ==
    /\ pc = "done"
    /\ position' = moveWithCollision(position, movement, playerBoxes)
    /\ Followed(position')
    /\ UNCHANGED << level, mazeVars, carveVars, rngVars, playerBoxes, queryVars,
                    sessionVars >>

NextMove == StartLevel \/ \E m \in Movements : Move(m)

SpecMove == InitPlay /\ [][NextMove]_vars

\* Player.update, lines 129-132, with frames short enough that each
\* component of the movement is below CELL_SIZE + 2 * PLAYER_RADIUS
WalkVals == {-15, -2, 0, 2, 15}

Walks == {[x |-> dx, z |-> dz] : dx \in WalkVals, dz \in WalkVals}

NextWalk == StartLevel \/ \E m \in Walks : Move(m)

SpecWalk == InitPlay /\ [][NextWalk]_vars

-----------------------------------------------------------------------------
(* Path queries: Game.revealPath asks Maze.showPath for the path from the   *)
(* player's position.  The player stands wherever its box meets no wall.    *)

QueryCoords(w) == {k * (CELL_SIZE \div 2) : k \in -2 .. 2 * w}

\* Player.setPosition, lines 93-96
SetPosition(p) ==
    /\ pc = "done"
    /\ pathQuery = << >>
    /\ position = startPosition[1]
    /\ ~checkCollision(p, playerBoxes)
    /\ position' = p
    /\ UNCHANGED << level, mazeVars, carveVars, rngVars, playerBoxes, queryVars,
                    sessionVars >>

\* Game.revealPath, lines 203-204, and Maze.showPath
RevealPath ==
    /\ pc = "done"
    /\ LET path == findPath(position.x, position.z, exitPosition[1], grid,
                            width, height)
       IN pathQuery' = << [origin |-> position, path |-> path,
                           shown |-> showPath(path)] >>
    /\ UNCHANGED << level, mazeVars, carveVars, rngVars, playerVars, ringQuery,
                    sessionVars >>

\* Maze.clearPath, lines 493-504, when the fade timeout fires
ClearPath ==
    /\ pathQuery # << >>
    /\ pathQuery' = << >>
    /\ UNCHANGED << level, mazeVars, carveVars, rngVars, playerVars, ringQuery,
                    sessionVars >>

NextPath ==
    \/ StartLevel
    \/ \E x \in QueryCoords(width), z \in QueryCoords(height) :
          SetPosition(Vec(x, 15, z))
    \/ RevealPath
    \/ ClearPath

SpecPath == InitPlay /\ [][NextPath]_vars

-----------------------------------------------------------------------------
(* Maze.findTeleportPosition and Game.debugTeleportNearExit *)

\* Maze.gridToWorld, lines 416-421
gridToWorld(gridX, gridZ) == [x |-> gridX * CELL_SIZE, z |-> gridZ * CELL_SIZE]

\* Maze.findTeleportPosition, lines 516-521
directions3 == << [dx |-> 0, dz |-> -1], [dx |-> 0, dz |-> 1],
                  [dx |-> -1, dz |-> 0], [dx |-> 1, dz |-> 0] >>

\* lines 532-542: the for loop over the directions, from direction i on;
\* s is [queue, visited, candidates]
RECURSIVE RingNeighbors(_, _, _, _, _, _)
RingNeighbors(i, current, s, g, w, h) ==
    IF i > Len(directions3) THEN s
    ELSE LET nx == current.x + directions3[i].dx
             nz == current.z + directions3[i].dz
         IN IF /\ nx >= 0 /\ nx < w /\ nz >= 0 /\ nz < h
               /\ g[nz][nx] = 0
               /\ Cell(nx, nz) \notin s.visited
            THEN RingNeighbors(i + 1, current,
                    [s EXCEPT !.visited = @ \cup {Cell(nx, nz)},
                              !.queue = Append(@, [x |-> nx, z |-> nz,
                                                   dist |-> current.dist + 1])],
                    g, w, h)
            ELSE RingNeighbors(i + 1, current, s, g, w, h)

\* lines 523-543: one iteration of the while loop
RingStep_FromTwo(s, g, w, h) ==
    IF Len(s.queue) = 0 THEN s
    ELSE LET current == Head(s.queue)
             s1 == [s EXCEPT !.queue = Tail(@),
                             !.candidates =
                                 IF current.dist >= 2 /\ current.dist <= 4
                                 THEN Append(@, current) ELSE @]
         IN IF current.dist >= 4 THEN s1
            ELSE RingNeighbors(1, current, s1, g, w, h)

RingStep(s, g, w, h) ==
    IF Len(s.queue) = 0 THEN s
    ELSE LET current == Head(s.queue)
             s1 == [s EXCEPT !.queue = Tail(@),
                             !.candidates =
                                 IF current.dist >= 3 /\ current.dist <= 4
                                 THEN Append(@, current) ELSE @]
         IN IF current.dist >= 4 THEN s1
            ELSE RingNeighbors(1, current, s1, g, w, h)

\* lines 523-543: the while loop
RECURSIVE RingLoop(_, _, _, _)
RingLoop(s, g, w, h) ==
    IF Len(s.queue) = 0 THEN s
    ELSE LET s1 == RingStep(s, g, w, h)
             s2 == RingStep(s1, g, w, h)
             s3 == RingStep(s2, g, w, h)
             s4 == RingStep(s3, g, w, h)
         IN RingLoop(s4, g, w, h)

\* lines 508-543: the array candidates when the loop ends
TeleportCandidates(exitPos, g, w, h) ==
    LET exitGrid == worldToGrid(exitPos.x, exitPos.z)
    IN RingLoop([queue |-> << [x |-> exitGrid.x, z |-> exitGrid.z, dist |-> 0] >>,
                 visited |-> {exitGrid}, candidates |-> << >>], g, w, h).candidates

\* lines 545-551: null without candidates, else the world position of
\* candidates[r], r being Math.floor(Math.random() * candidates.length)
findTeleportPosition_CellCorner(candidates, r) ==
    IF Len(candidates) = 0 THEN << >>
    ELSE LET chosen == candidates[r + 1]
             world == gridToWorld(chosen.x, chosen.z)
         IN << Vec(world.x + CELL_SIZE \div 2, 15,
                   world.z + CELL_SIZE \div 2) >>

findTeleportPosition(candidates, r) ==
    IF Len(candidates) = 0 THEN << >>
    ELSE LET chosen == candidates[r + 1]
             world == gridToWorld(chosen.x, chosen.z)
         IN << Vec(world.x, 15, world.z) >>

\* the values Math.floor(Math.random() * n) can take
RandomBelow(n) == IF n = 0 THEN {0} ELSE 0 .. n - 1

\* Game.debugTeleportNearExit, lines 212-220
debugTeleportNearExit ==
    \E candidates \in {TeleportCandidates(exitPosition[1], grid, width, height)} :
       \E r \in RandomBelow(Len(candidates)) :
          LET teleportPos == findTeleportPosition(candidates, r)
          IN /\ ringQuery' = << [candidates |-> candidates,
                                 chosen |-> teleportPos] >>
             /\ position' = IF teleportPos # << >> THEN teleportPos[1]
                            ELSE position

\* debugTeleportNearExit called on a generated maze
Teleport ==
    /\ pc = "done"
    /\ debugTeleportNearExit
    /\ UNCHANGED << level, mazeVars, carveVars, rngVars, playerBoxes, pathQuery,
                    sessionVars >>

NextRing ==
    \/ StartLevel
    \/ Teleport
    \/ RevealPath
    \/ ClearPath

SpecRing == InitPlay /\ [][NextRing]_vars

-----------------------------------------------------------------------------
(* Maze.checkExitCollision *)

\* the default value 0.5 of the parameter radius
EXIT_RADIUS == 5

checkExitCollision(playerPos, exitPos) ==
    IF exitPos = << >> THEN FALSE
    ELSE LET dx == playerPos.x - exitPos[1].x
             dz == playerPos.z - exitPos[1].z
         IN dx * dx + dz * dz < EXIT_RADIUS * EXIT_RADIUS

-----------------------------------------------------------------------------
(* Levels and markers: Game.init, the document's events (click, keydown of *)
(* the marker keys, pointerlockchange), the frames of Game.animate and the *)
(* timer started by Game.win.  Maze.generate awaits nothing that leaves    *)
(* the microtask queue, so no event, frame or timer runs inside            *)
(* Game.nextLevel.                                                         *)

\* the random stream that returns 0 at every call
SessionStreams == {[i \in 0 .. RandPeriod - 1 |-> 0]}

InitLevels ==
    /\ level = 1
    /\ rnd \in SessionStreams
    /\ InitMaze
    /\ InitPlayer
    /\ InitSession

\* Maze.createWalls, lines 250-254: the array Maze.walls after generate holds
\* the one mesh merged from the walls' geometries
walls == << "wallMesh" >>

\* Game.init, lines 55-64: maze.generate, setupPlayer, setupNavigation,
\* setupEventListeners, and the loading flag cleared
GameInit ==
    /\ pc = "idle"
    /\ Generate(level)
    /\ IF pc' = "done"
       THEN /\ position' = startPosition'[1]
            /\ setWallBoundingBoxes(mazeBoxes')
            /\ wallMeshes' = Len(walls)
            /\ isLoading' = FALSE
       ELSE UNCHANGED << position, playerBoxes, wallMeshes, isLoading >>
    /\ UNCHANGED << level, rnd, queryVars, isRunning, hasWon, hintsRemaining,
                    timers, isLocked, isActive, duckCount, chalkCount, ducks,
                    duckLights, chalkMarks, duckModelLoaded, reported,
                    intersects, duckPosition, playerPosition,
                    browserVars >>

\* NavigationAids.loadDuckModel, lines 48-54: the loader's success callback
DuckModelLoaded ==
    /\ pc = "done"
    /\ ~duckModelLoaded
    /\ duckModelLoaded' = TRUE
    /\ UNCHANGED << level, mazeVars, carveVars, rngVars, playerVars, queryVars,
                    gameVars, isLocked, isActive, duckCount, chalkCount, ducks,
                    duckLights, chalkMarks, playerPosition, wallMeshes,
                    reported, intersects, duckPosition,
                    browserVars >>

\* Game.onClick, lines 222-229
Click_WhileWon ==
    /\ pc = "done"
    /\ ~isLoading
    /\ ~isRunning
    /\ lockRequest' = TRUE
    /\ UNCHANGED << level, mazeVars, carveVars, rngVars, playerVars, queryVars,
                    gameVars, isLocked, navVars, pointerLockElement,
                    exitRequest >>

Click ==
    /\ pc = "done"
    /\ ~isLoading
    /\ ~hasWon
    /\ ~isRunning
    /\ lockRequest' = TRUE
    /\ UNCHANGED << level, mazeVars, carveVars, rngVars, playerVars, queryVars,
                    gameVars, isLocked, navVars, pointerLockElement,
                    exitRequest >>

\* Game.onPointerLockChange, lines 231-250, with the value that
\* document.pointerLockElement === document.body has when the event fires
onPointerLockChange(locked) ==
    /\ isRunning' = locked
    /\ isLocked' = locked
    /\ isActive' = locked

\* the browser grants a requestPointerLock(): the pointer is locked to the
\* body and pointerlockchange fires
PointerLocked ==
    /\ pc = "done"
    /\ lockRequest
    /\ lockRequest' = FALSE
    /\ pointerLockElement' = TRUE
    /\ onPointerLockChange(TRUE)
    /\ UNCHANGED << level, mazeVars, carveVars, rngVars, position, playerBoxes,
                    queryVars, hasWon, isLoading, hintsRemaining, timers,
                    duckCount, chalkCount, ducks, duckLights, chalkMarks,
                    duckModelLoaded, reported, intersects, duckPosition,
                    playerPosition, wallMeshes, exitRequest >>

\* the browser refuses a requestPointerLock(): pointerlockerror has no listener
LockRefused ==
    /\ lockRequest
    /\ lockRequest' = FALSE
    /\ UNCHANGED << level, mazeVars, carveVars, rngVars, playerVars, queryVars,
                    gameVars, isLocked, navVars, pointerLockElement,
                    exitRequest >>

\* the pointer lock ends, through the Escape key or through an
\* exitPointerLock() the browser carries out, and pointerlockchange fires
PointerUnlocked ==
    /\ pc = "done"
    /\ pointerLockElement
    /\ pointerLockElement' = FALSE
    /\ exitRequest' = FALSE
    /\ onPointerLockChange(FALSE)
    /\ UNCHANGED << level, mazeVars, carveVars, rngVars, position, playerBoxes,
                    queryVars, hasWon, isLoading, hintsRemaining, timers,
                    duckCount, chalkCount, ducks, duckLights, chalkMarks,
                    duckModelLoaded, reported, intersects, duckPosition,
                    playerPosition, wallMeshes, lockRequest >>

\* the movement vectors of a frame, MOVE_SPEED * deltaTime along the
\* direction of the keys held: none, or after a long frame the stride that
\* spans the maze from the start cell to the exit cell
Strides == {[x |-> 0, z |-> 0],
            [x |-> (width - 3) * CELL_SIZE, z |-> (height - 3) * CELL_SIZE]}

\* Game.update, lines 321-335: Player.update, setPlayerPosition and
\* checkWinCondition with Game.win, lines 273-287
Update(movement) ==
    /\ isRunning
    /\ ~isLoading
    /\ position' = IF isLocked
                   THEN moveWithCollision(position, movement, playerBoxes)
                   ELSE position
    /\ Followed(position')
    /\ playerPosition' = << position' >>
    /\ IF checkExitCollision(position', exitPosition)
       THEN /\ hasWon' = TRUE
            /\ isRunning' = FALSE
            /\ isLocked' = FALSE
            /\ exitRequest' = TRUE
            /\ timers' = timers + 1
       ELSE UNCHANGED << hasWon, isRunning, isLocked, exitRequest, timers >>
    /\ UNCHANGED << level, mazeVars, carveVars, rngVars, playerBoxes, queryVars,
                    isLoading, hintsRemaining, isActive, duckCount, chalkCount,
                    ducks, duckLights, chalkMarks, duckModelLoaded, reported,
                    intersects, duckPosition, wallMeshes,
                    pointerLockElement, lockRequest >>

\* NavigationAids.dropDuck, lines 88-144
dropDuck_NoCapacityCheck ==
    IF playerPosition = << >> \/ ~duckModelLoaded
    THEN /\ reported' = << >>
         /\ UNCHANGED << ducks, duckLights, duckCount, duckPosition >>
    ELSE /\ reported' = << >>
         /\ duckPosition' = << [x |-> playerPosition[1].x,
                                z |-> playerPosition[1].z] >>
         /\ ducks' = ducks + 1
         /\ duckLights' = duckLights + 2
         /\ duckCount' = duckCount - 1

dropDuck ==
    IF duckCount <= 0
    THEN /\ reported' = << "breadcrumb" >>
         /\ UNCHANGED << ducks, duckLights, duckCount, duckPosition >>
    ELSE IF playerPosition = << >> \/ ~duckModelLoaded
    THEN /\ reported' = << >>
         /\ UNCHANGED << ducks, duckLights, duckCount, duckPosition >>
    ELSE /\ reported' = << >>
         /\ duckPosition' = << [x |-> playerPosition[1].x,
                                z |-> playerPosition[1].z] >>
         /\ ducks' = ducks + 1
         /\ duckLights' = duckLights + 2
         /\ duckCount' = duckCount - 1

\* NavigationAids.onKeyDown, lines 66-74, with the code KeyB
KeyB_OneLight ==
    /\ isActive
    /\ IF duckCount <= 0
       THEN /\ reported' = << "breadcrumb" >>
            /\ UNCHANGED << ducks, duckLights, duckCount, duckPosition >>
       ELSE IF playerPosition = << >> \/ ~duckModelLoaded
       THEN /\ reported' = << >>
            /\ UNCHANGED << ducks, duckLights, duckCount, duckPosition >>
       ELSE /\ reported' = << >>
            /\ duckPosition' = << [x |-> playerPosition[1].x,
                                   z |-> playerPosition[1].z] >>
            /\ ducks' = ducks + 1
            /\ duckLights' = duckLights + 1
            /\ duckCount' = duckCount - 1
    /\ UNCHANGED << level, mazeVars, carveVars, rngVars, playerVars, queryVars,
                    gameVars, isLocked, isActive, chalkCount, chalkMarks,
                    duckModelLoaded, playerPosition, wallMeshes, intersects,
                    browserVars >>

KeyB ==
    /\ isActive
    /\ dropDuck
    /\ UNCHANGED << level, mazeVars, carveVars, rngVars, playerVars, queryVars,
                    gameVars, isLocked, isActive, chalkCount, chalkMarks,
                    duckModelLoaded, playerPosition, wallMeshes, intersects,
                    browserVars >>

\* what the ray from the camera meets: << >> when it meets no wall, else the
\* distance of the nearest hit
Hits == {<< >>} \cup {<< d >> : d \in {CHALK_RANGE - 5, CHALK_RANGE, CHALK_RANGE + 5}}

\* NavigationAids.placeChalkMark, line 166: the range test on the hit's
\* distance
TooFar_Inclusive(distance) == distance >= CHALK_RANGE

TooFar(distance) == distance > CHALK_RANGE

\* NavigationAids.placeChalkMark, lines 146-180
placeChalkMark_HitFirst(hit) ==
    IF wallMeshes = 0
    THEN /\ reported' = << >>
         /\ UNCHANGED << intersects, chalkMarks, chalkCount >>
    ELSE IF hit = << >>
    THEN /\ reported' = << "no_wall" >>
         /\ intersects' = hit
         /\ UNCHANGED << chalkMarks, chalkCount >>
    ELSE IF TooFar(hit[1])
    THEN /\ reported' = << "too_far" >>
         /\ intersects' = hit
         /\ UNCHANGED << chalkMarks, chalkCount >>
    ELSE IF chalkCount <= 0
    THEN /\ reported' = << "chalk" >>
         /\ intersects' = hit
         /\ UNCHANGED << chalkMarks, chalkCount >>
    ELSE /\ reported' = << >>
         /\ intersects' = hit
         /\ chalkMarks' = chalkMarks + 1
         /\ chalkCount' = chalkCount - 1

placeChalkMark(hit) ==
    IF chalkCount <= 0
    THEN /\ reported' = << "chalk" >>
         /\ UNCHANGED << intersects, chalkMarks, chalkCount >>
    ELSE IF wallMeshes = 0
    THEN /\ reported' = << >>
         /\ UNCHANGED << intersects, chalkMarks, chalkCount >>
    ELSE IF hit = << >>
    THEN /\ reported' = << "no_wall" >>
         /\ intersects' = hit
         /\ UNCHANGED << chalkMarks, chalkCount >>
    ELSE IF TooFar(hit[1])
    THEN /\ reported' = << "too_far" >>
         /\ intersects' = hit
         /\ UNCHANGED << chalkMarks, chalkCount >>
    ELSE /\ reported' = << >>
         /\ intersects' = hit
         /\ chalkMarks' = chalkMarks + 1
         /\ chalkCount' = chalkCount - 1

\* NavigationAids.onKeyDown, lines 66-74, with the code KeyC
KeyC(hit) ==
    /\ isActive
    /\ placeChalkMark(hit)
    /\ UNCHANGED << level, mazeVars, carveVars, rngVars, playerVars, queryVars,
                    gameVars, isLocked, isActive, duckCount, ducks, duckLights,
                    duckPosition,
                    duckModelLoaded, playerPosition, wallMeshes, browserVars >>

\* NavigationAids.reset, lines 209-231
reset_KeepsCount ==
    /\ ducks' = 0
    /\ duckPosition' = << >>
    /\ duckLights' = 0
    /\ duckCount' = duckCount
    /\ chalkMarks' = 0
    /\ chalkCount' = CHALK_LIMIT

reset ==
    /\ ducks' = 0
    /\ duckPosition' = << >>
    /\ duckLights' = 0
    /\ duckCount' = DUCK_LIMIT
    /\ chalkMarks' = 0
    /\ chalkCount' = CHALK_LIMIT

\* Game.nextLevel, lines 289-319, when a timer of Game.win fires
NextLevel ==
    /\ timers > 0
    /\ level < MaxSessionLevel
    /\ timers' = timers - 1
    /\ level' = level + 1
    /\ hasWon' = FALSE
    /\ hintsRemaining' = HINTS_PER_LEVEL
    /\ reset
    /\ Generate(level')
    /\ pathQuery' = << >>
    /\ IF pc' = "done"
       THEN /\ position' = startPosition'[1]
            /\ setWallBoundingBoxes(mazeBoxes')
            /\ wallMeshes' = Len(walls)
            /\ isLoading' = FALSE
            /\ lockRequest' = TRUE
       ELSE /\ isLoading' = TRUE
            /\ UNCHANGED << position, playerBoxes, wallMeshes, lockRequest >>
    /\ UNCHANGED << rnd, ringQuery, isRunning, isLocked, isActive,
                    duckModelLoaded, reported, intersects, playerPosition,
                    pointerLockElement, exitRequest >>

NextLevels ==
    \/ GameInit
    \/ DuckModelLoaded
    \/ Click
    \/ PointerLocked
    \/ LockRefused
    \/ PointerUnlocked
    \/ \E m \in Strides : Update(m)
    \/ KeyB
    \/ \E hit \in Hits : KeyC(hit)
    \/ NextLevel

SpecLevels == InitLevels /\ [][NextLevels]_vars

-----------------------------------------------------------------------------
(* Hints and teleport: the session with the keys P and O of Game.onKeyDown *)
(* in place of the marker keys.                                             *)

\* Game.revealPath, lines 197-210
revealPath_AlwaysCharges ==
    IF hintsRemaining <= 0
    THEN UNCHANGED << pathQuery, hintsRemaining >>
    ELSE LET path == findPath(position.x, position.z, exitPosition[1], grid,
                              width, height)
             success == showPath(path)
         IN /\ pathQuery' = << [origin |-> position, path |-> path,
                                shown |-> success] >>
            /\ hintsRemaining' = hintsRemaining - 1

revealPath ==
    IF hintsRemaining <= 0
    THEN UNCHANGED << pathQuery, hintsRemaining >>
    ELSE LET path == findPath(position.x, position.z, exitPosition[1], grid,
                              width, height)
             success == showPath(path)
         IN /\ pathQuery' = << [origin |-> position, path |-> path,
                                shown |-> success] >>
            /\ hintsRemaining' = IF success THEN hintsRemaining - 1
                                 ELSE hintsRemaining

\* Game.onKeyDown, lines 187-195, with the code KeyP
KeyP ==
    /\ isRunning
    /\ ~isLoading
    /\ revealPath
    /\ UNCHANGED << level, mazeVars, carveVars, rngVars, playerVars, ringQuery,
                    isRunning, hasWon, isLoading, timers, isLocked, navVars,
                    browserVars >>

\* Game.onKeyDown, lines 187-195, with the code KeyO
KeyO_MarksGrid ==
    /\ isRunning
    /\ ~isLoading
    /\ debugTeleportNearExit
    /\ grid' = IF ringQuery'[1].chosen = << >> THEN grid
               ELSE SetCell(grid, height - 2, width - 2, 2)
    /\ UNCHANGED << level, width, height, startPosition, exitPosition,
                    mazeBoxes, carveVars, rngVars, playerBoxes, pathQuery,
                    sessionVars >>

KeyO ==
    /\ isRunning
    /\ ~isLoading
    /\ debugTeleportNearExit
    /\ UNCHANGED << level, mazeVars, carveVars, rngVars, playerBoxes, pathQuery,
                    sessionVars >>

\* the movement vectors of a frame: those of Strides, and the strides from
\* the start cell to the two points of the exit cell half a cell before its
\* centre
KeyStrides ==
    Strides \cup
    {[x |-> (width - 3) * CELL_SIZE - CELL_SIZE \div 2,
      z |-> (height - 3) * CELL_SIZE],
     [x |-> (width - 3) * CELL_SIZE,
      z |-> (height - 3) * CELL_SIZE - CELL_SIZE \div 2]}

NextKeys ==
    \/ GameInit
    \/ Click
    \/ PointerLocked
    \/ LockRefused
    \/ PointerUnlocked
    \/ \E m \in KeyStrides : Update(m)
    \/ KeyP
    \/ KeyO
    \/ ClearPath
    \/ NextLevel

SpecKeys == InitLevels /\ [][NextKeys]_vars

\* a timer started by Game.win is pending, below the last level followed:
\* the condition under which NextLevel can take a step
TimerDue == timers > 0 /\ level < MaxSessionLevel

\* setTimeout runs its callback once the delay has passed: weak fairness of
\* NextLevel, with TimerDue in the place of ENABLED << NextLevel >>_vars
SpecKeysFair ==
    SpecKeys /\ ([]<>(~TimerDue) \/ []<><< NextLevel >>_vars)

-----------------------------------------------------------------------------
(* Ducks and teleport: the session with the floor-marker key B of          *)
(* NavigationAids.onKeyDown and the key O of Game.onKeyDown.                *)

NextDrops ==
    \/ GameInit
    \/ DuckModelLoaded
    \/ Click
    \/ PointerLocked
    \/ LockRefused
    \/ PointerUnlocked
    \/ \E m \in Strides : Update(m)
    \/ KeyB
    \/ KeyO
    \/ NextLevel

SpecDrops == InitLevels /\ [][NextDrops]_vars

-----------------------------------------------------------------------------
(* Two path queries on one maze: the player stands on an Open cell, the     *)
(* path is revealed, the player stands on another Open cell and the path is *)
(* revealed again.                                                          *)

\* the player has come to stand at the centre of the cell c
StandAt(c) ==
    /\ pc = "done"
    /\ InGrid(grid, c.x, c.z)
    /\ grid[c.z][c.x] = 0
    /\ \/ pathQuery = << >> /\ position = startPosition[1]
       \/ Len(pathQuery) = 1 /\ pathQuery[1].origin = position
    /\ position' = Vec(c.x * CELL_SIZE, 15, c.z * CELL_SIZE)
    /\ ~checkCollision(position', playerBoxes)
    /\ UNCHANGED << level, mazeVars, carveVars, rngVars, playerBoxes, queryVars,
                    sessionVars >>

\* Game.revealPath, lines 203-204, and Maze.showPath, the call before kept
RevealAgain ==
    /\ pc = "done"
    /\ Len(pathQuery) < 2
    /\ pathQuery # << >> => pathQuery[1].origin # position
    /\ LET path == findPath(position.x, position.z, exitPosition[1], grid,
                            width, height)
       IN pathQuery' = << [origin |-> position, path |-> path,
                           shown |-> showPath(path)] >> \o pathQuery
    /\ UNCHANGED << level, mazeVars, carveVars, rngVars, playerVars, ringQuery,
                    sessionVars >>

NextPair ==
    \/ StartLevel
    \/ \E x \in 0 .. width - 1, z \in 0 .. height - 1 : StandAt(Cell(x, z))
    \/ RevealAgain

SpecPair == InitLevels /\ [][NextPair]_vars

-----------------------------------------------------------------------------
(* Properties of the generated grid *)

AllCells(w, h) == {Cell(x, z) : x \in 0 .. w - 1, z \in 0 .. h - 1}

IsOpen(g, c) == InGrid(g, c.x, c.z) /\ g[c.z][c.x] = 0

OpenCells(g, w, h) == {c \in AllCells(w, h) : g[c.z][c.x] = 0}

Adjacent4(c) == {Cell(c.x, c.z - 1), Cell(c.x, c.z + 1),
                 Cell(c.x - 1, c.z), Cell(c.x + 1, c.z)}

\* seen, and the Open cells 4-adjacent to a cell of seen
Expand(g, seen) ==
    seen \cup {d \in UNION {Adjacent4(c) : c \in seen} : IsOpen(g, d)}

RECURSIVE Grow(_, _)
Grow(g, seen) ==
    LET more == Expand(g, Expand(g, Expand(g, Expand(g, seen))))
    IN IF more = seen THEN seen ELSE Grow(g, more)

\* the cells joined to c by a chain of 4-adjacent Open cells
ReachableFrom(g, c) == Grow(g, {c})

RoomCells(w, h) == {c \in AllCells(w, h) :
                      /\ c.x % 2 = 1 /\ c.z % 2 = 1
                      /\ c.x > 0 /\ c.x < w - 1 /\ c.z > 0 /\ c.z < h - 1}

\* the pairs of 4-adjacent Open cells, each pair counted once
OpenEdges(g, w, h) ==
    {e \in UNION {{<< c, Cell(c.x + 1, c.z) >>, << c, Cell(c.x, c.z + 1) >>} :
                     c \in OpenCells(g, w, h)} : IsOpen(g, e[2])}

BorderCells(w, h) == {c \in AllCells(w, h) :
                        c.x = 0 \/ c.x = w - 1 \/ c.z = 0 \/ c.z = h - 1}

\* C1: in every generated grid every Open cell is reachable from the start
\* cell (1,1) through 4-adjacent Open cells, and the exit cell
\* (width-2, height-2) is Open.
C1_OpenCellsReachable ==
    pc = "done" =>
        /\ OpenCells(grid, width, height) \subseteq ReachableFrom(grid, Cell(1, 1))
        /\ IsOpen(grid, Cell(width - 2, height - 2))

C1_Witness ==
    /\ pc = "done"
    /\ Cell(width - 2, height - 2) \in ReachableFrom(grid, Cell(1, 1))
    /\ Cardinality(OpenCells(grid, width, height)) > Cardinality(RoomCells(width, height))

\* C6: the Open cells of every generated grid, joined by 4-adjacency, form a
\* tree that holds every room cell: the graph is connected and has one edge
\* less than it has cells (so it has no cycle and any two Open cells are
\* joined by exactly one simple path).
C6_SpanningTree ==
    pc = "done" =>
        LET open == OpenCells(grid, width, height)
        IN /\ RoomCells(width, height) \subseteq open
           /\ ReachableFrom(grid, Cell(1, 1)) = open
           /\ Cardinality(OpenEdges(grid, width, height)) = Cardinality(open) - 1

C6_Witness ==
    /\ pc = "done"
    /\ Cardinality(OpenEdges(grid, width, height)) >= 2 * Cardinality(RoomCells(width, height)) - 2
    /\ \E c \in OpenCells(grid, width, height) :
          Cardinality({d \in Adjacent4(c) : IsOpen(grid, d)}) >= 3

\* C7: in every generated grid all border cells are Wall, the start is the
\* cell (1,1), the exit is the cell (width-2, height-2), and both are Open.
C7_BorderStartExit ==
    pc = "done" =>
        /\ \A c \in BorderCells(width, height) : grid[c.z][c.x] = 1
        /\ worldToGrid(startPosition[1].x, startPosition[1].z) = Cell(1, 1)
        /\ worldToGrid(exitPosition[1].x, exitPosition[1].z) = Cell(width - 2, height - 2)
        /\ IsOpen(grid, worldToGrid(startPosition[1].x, startPosition[1].z))
        /\ IsOpen(grid, worldToGrid(exitPosition[1].x, exitPosition[1].z))

C7_Witness ==
    /\ pc = "done"
    /\ exitPosition = << Vec((width - 2) * CELL_SIZE, 0, (height - 2) * CELL_SIZE) >>
    /\ grid[height - 2][width - 2] = 0
    /\ grid[height - 1][width - 2] = 1

\* the iterations carvePassages has left at most: two for every room cell
\* not yet visited (its push and its pop) and one for every cell on the stack
CarveVariant ==
    2 * (Cardinality(RoomCells(width, height)) - Cardinality(visited)) + Len(stack)

\* C8: carvePassages terminates: each room cell is pushed on the stack at
\* most once (the pushes made so far are as many as the cells visited, all
\* of them room cells, and the stack holds no cell twice), no grid index it
\* uses lies outside the grid, and the stack becomes empty: every iteration
\* of the loop lowers CarveVariant, which is never negative, and no
\* exception stops the loop before generate is done.
C8_CarveTerminates ==
    /\ [](/\ pushes = Cardinality(visited)
          /\ visited \subseteq RoomCells(width, height)
          /\ \A i, j \in 1 .. Len(stack) : stack[i] = stack[j] => i = j
          /\ ~oob
          /\ pc = "carving" => CarveVariant >= 0
          /\ pc = "done" => stack = << >>
          /\ pc # "thrown")
    /\ [][pc = "carving" /\ pc' = "carving" => CarveVariant' < CarveVariant]_vars

C8_Witness ==
    /\ pc = "done"
    /\ stack = << >>
    /\ pushes = Cardinality(RoomCells(width, height))

-----------------------------------------------------------------------------
(* Properties of the level sizing policy *)

SizeTable == << 11, 15, 19, 23, 27, 31, 35, 39, 43, 47, 51, 51 >>

\* C9: for every level >= 1 the maze size is min(11 + (level-1)*4, 51):
\* levels 1..12 give 11,15,19,23,27,31,35,39,43,47,51,51 and later levels
\* 51; the size is an odd integer in [11,51] and never smaller than the
\* size of an earlier level.
C9_SizeForLevel ==
    pc = "sized" =>
        /\ width = (IF 11 + (level - 1) * 4 < 51 THEN 11 + (level - 1) * 4 ELSE 51)
        /\ level <= 12 => width = SizeTable[level]
        /\ level > 12 => width = 51
        /\ width % 2 = 1 /\ width >= 11 /\ width <= 51
        /\ \A lv \in 1 .. level : getSizeForLevel(lv) <= width
        /\ height = width

C9_Witness == pc = "sized" /\ level = 12 /\ width = 51 /\ getSizeForLevel(10) = 47

-----------------------------------------------------------------------------
(* Properties of the player's movement *)

\* the boxes are apart: one lies strictly beyond the other on some axis
Apart(a, b) ==
    \/ a.max.x < b.min.x \/ b.max.x < a.min.x
    \/ a.max.y < b.min.y \/ b.max.y < a.min.y
    \/ a.max.z < b.min.z \/ b.max.z < a.min.z

AgentBox(pos) == [min |-> Vec(pos.x - 3, 0, pos.z - 3),
                  max |-> Vec(pos.x + 3, 16, pos.z + 3)]

\* C2: from the start position on, after any sequence of moveWithCollision
\* calls the agent box (half-width 0.3, height 1.6) at the player's position
\* is apart from every wall box, touching counted as intersecting, also
\* after moves whose two axis components are both blocked.
C2_NoWallIntersection ==
    pc = "done" =>
        /\ playerBoxes = mazeBoxes
        /\ \A i \in 1 .. Len(mazeBoxes) : Apart(AgentBox(position), mazeBoxes[i])

\* a position other than the start where a diagonal movement has both of its
\* components blocked, one of them by a wall box it would only touch
C2_Witness ==
    /\ pc = "done"
    /\ position # startPosition[1]
    /\ \E m \in Movements :
          /\ m.x # 0 /\ m.z # 0
          /\ checkCollision([position EXCEPT !.x = @ + m.x], playerBoxes)
          /\ checkCollision([position EXCEPT !.z = @ + m.z], playerBoxes)
          /\ moveWithCollision(position, m, playerBoxes) = position
          /\ \E i \in 1 .. Len(playerBoxes) :
                /\ playerBoxes[i].min.x = position.x + m.x + 3
                /\ intersectsBox(PlayerBox([position EXCEPT !.x = @ + m.x]),
                                 playerBoxes[i])

-----------------------------------------------------------------------------
(* Properties of the path finder *)

Abs(n) == IF n < 0 THEN -n ELSE n

Manhattan(a, b) == Abs(a.x - b.x) + Abs(a.z - b.z)

\* the number of steps of a shortest chain of 4-adjacent Open cells from the
\* cells of seen to target, k steps being made already; -1 if there is none
RECURSIVE StepsTo(_, _, _, _)
StepsTo(g, seen, target, k) ==
    IF target \in seen THEN k
    ELSE LET s1 == Expand(g, seen)
             s2 == Expand(g, s1)
             s3 == Expand(g, s2)
             s4 == Expand(g, s3)
         IN IF target \in s1 THEN k + 1
            ELSE IF target \in s2 THEN k + 2
            ELSE IF target \in s3 THEN k + 3
            ELSE IF s4 = seen THEN -1
            ELSE StepsTo(g, s4, target, k + 4)

Distance(g, from, target) == StepsTo(g, {from}, target, 0)

ExitCell == Cell(width - 2, height - 2)

\* the cell is a grid cell nearest the position: no further than half a
\* cell from it on either axis
NearestCell(c, pos) ==
    /\ 2 * Abs(pos.x - c.x * CELL_SIZE) <= CELL_SIZE
    /\ 2 * Abs(pos.z - c.z * CELL_SIZE) <= CELL_SIZE

Queried == pathQuery # << >>

\* C3: a path returned by findPath starts at the grid cell nearest the
\* query position and ends at the exit cell; consecutive cells are
\* 4-adjacent, every cell is Open and no cell occurs twice.
C3_PathWellFormed ==
    (Queried /\ pathQuery[1].path # << >>) =>
        LET path == pathQuery[1].path
        IN /\ NearestCell(path[1], pathQuery[1].origin)
           /\ path[Len(path)] = ExitCell
           /\ \A i \in 1 .. Len(path) - 1 : Manhattan(path[i], path[i + 1]) = 1
           /\ \A i \in 1 .. Len(path) : IsOpen(grid, path[i])
           /\ \A i, j \in 1 .. Len(path) : path[i] = path[j] => i = j

\* a path of ten cells or more asked for from half way between two cells
C3_Witness ==
    /\ Queried
    /\ Len(pathQuery[1].path) >= 10
    /\ pathQuery[1].origin.x % CELL_SIZE # 0

\* C4: the path returned by findPath has the least number of cells among
\* the chains of 4-adjacent Open cells from the origin cell to the exit
\* cell, and its number of steps is at least the Manhattan distance
\* between the two cells.
C4_ShortestPath ==
    (Queried /\ pathQuery[1].path # << >>) =>
        LET path == pathQuery[1].path
            origin == worldToGrid(pathQuery[1].origin.x, pathQuery[1].origin.z)
        IN /\ Len(path) - 1 = Distance(grid, origin, ExitCell)
           /\ Len(path) - 1 >= Manhattan(origin, ExitCell)

\* a returned path with more steps than the Manhattan distance
C4_Witness ==
    /\ Queried
    /\ pathQuery[1].path # << >>
    /\ Len(pathQuery[1].path) - 1 >
          Manhattan(worldToGrid(pathQuery[1].origin.x, pathQuery[1].origin.z),
                    ExitCell)

\* C5: for every Open origin cell findPath returns a path, and showPath
\* reports nothing to show (returns false) exactly when the origin cell is
\* the exit cell; on the 11x11 maze the start is (1,1), the exit is (9,9)
\* and the path from the start is not empty and ends at (9,9).
C5_PathFound ==
    Queried =>
        LET q == pathQuery[1]
            origin == worldToGrid(q.origin.x, q.origin.z)
        IN /\ IsOpen(grid, origin) =>
                /\ q.path # << >>
                /\ (~q.shown) <=> (origin = ExitCell)
                /\ (~q.shown) <=> (Len(q.path) < 2)
           /\ (width = 11 /\ q.origin = startPosition[1]) =>
                /\ origin = Cell(1, 1)
                /\ worldToGrid(exitPosition[1].x, exitPosition[1].z) = Cell(9, 9)
                /\ Len(q.path) >= 2
                /\ q.path[Len(q.path)] = Cell(9, 9)

\* nothing to show: the query made from within the exit cell
C5_Witness ==
    /\ Queried
    /\ worldToGrid(pathQuery[1].origin.x, pathQuery[1].origin.z) = ExitCell
    /\ pathQuery[1].origin.x # exitPosition[1].x
    /\ pathQuery[1].path = << ExitCell >>
    /\ ~pathQuery[1].shown

-----------------------------------------------------------------------------
(* Properties of the marker counters *)

\* C10: duckCount and chalkCount never increase and never go below 0 except
\* through reset(), which sets them to exactly 8 and 12; reset() is invoked
\* only by the level advance: the counters stay within 0..8 and 0..12, a
\* step that advances the level by one leaves them at 8 and 12, and within a
\* level no step raises a counter or removes a recorded marker.
C10_CountersResetOnlyOnLevelAdvance ==
    /\ [](/\ duckCount >= 0 /\ duckCount <= 8
          /\ chalkCount >= 0 /\ chalkCount <= 12)
    /\ [][IF level' # level
          THEN /\ level' = level + 1
               /\ duckCount' = 8
               /\ chalkCount' = 12
          ELSE /\ duckCount' <= duckCount
               /\ chalkCount' <= chalkCount
               /\ ducks' >= ducks
               /\ chalkMarks' >= chalkMarks]_vars

\* both counters used up again in the level that followed a level advance
C10_Witness ==
    /\ level = 2
    /\ duckCount = 0
    /\ chalkCount = 0
    /\ ducks = 8
    /\ chalkMarks = 12


-----------------------------------------------------------------------------
(* Properties of the floor markers *)

\* C11: the floor-marker counter reaches 0 only after 8 placements; an
\* attempt made with the counter at 0 reports 'breadcrumb', places no marker
\* and leaves the counter at 0; the reset of a level advance sets the counter
\* to 8 and removes the markers; and from the first placement on the duck
\* model stays loaded and the agent's position stays known, so that an
\* attempt made with the counter back at 8 places a marker and takes the
\* counter to 7.
C11_DucksExhausted ==
    /\ [](duckCount = 0 => ducks = DUCK_LIMIT)
    /\ [](ducks > 0 \/ duckCount < DUCK_LIMIT
            => duckModelLoaded /\ playerPosition # << >>)
    /\ [][/\ KeyB /\ duckCount = 0
             => /\ reported' = << "breadcrumb" >>
                /\ ducks' = ducks
                /\ duckLights' = duckLights
                /\ duckCount' = 0
          /\ level' # level => duckCount' = DUCK_LIMIT /\ ducks' = 0
          /\ duckModelLoaded /\ playerPosition # << >>
             => duckModelLoaded' /\ playerPosition' # << >>
          /\ KeyB /\ duckCount = DUCK_LIMIT /\ duckModelLoaded
                  /\ playerPosition # << >>
             => /\ reported' = << >>
                /\ ducks' = 1
                /\ duckCount' = DUCK_LIMIT - 1]_vars

\* the rejected ninth attempt of level 1 was the last marker key, the reset
\* of level 2 has run and the next attempt will succeed
C11_Witness ==
    /\ level = 2
    /\ reported = << "breadcrumb" >>
    /\ duckCount = DUCK_LIMIT
    /\ ducks = 0
    /\ isActive
    /\ duckModelLoaded
    /\ playerPosition # << >>


-----------------------------------------------------------------------------
(* Properties of the wall markers *)

\* the outcome of a keydown of the wall-marker key: one mark more and the
\* counter one lower, with no error reported
ChalkPlaced ==
    /\ reported' = << >>
    /\ chalkMarks' = chalkMarks + 1
    /\ chalkCount' = chalkCount - 1

\* the outcome of a keydown of the wall-marker key: exactly the one error
\* type reported, the marks and the counter as they were
ChalkRejected(type) ==
    /\ reported' = << type >>
    /\ chalkMarks' = chalkMarks
    /\ chalkCount' = chalkCount

\* C12: every wall-marker attempt either places exactly one mark and lowers
\* the counter by 1, or is rejected with exactly one reason and leaves the
\* marks and the counter unchanged; the reason is 'chalk' when the counter is
\* 0 whatever the ray meets, else 'no_wall' when the ray meets no wall, else
\* 'too_far' when the hit is beyond the range.
C12_ChalkOutcomes ==
    [][\A hit \in Hits :
          KeyC(hit) =>
             IF chalkCount = 0 THEN ChalkRejected("chalk")
             ELSE IF hit = << >> THEN ChalkRejected("no_wall")
             ELSE IF hit[1] > CHALK_RANGE THEN ChalkRejected("too_far")
             ELSE ChalkPlaced]_vars

\* twelve marks are placed, the counter is used up, and the attempt after
\* them was rejected for the counter
C12_Witness ==
    /\ chalkCount = 0
    /\ chalkMarks = CHALK_LIMIT
    /\ reported = << "chalk" >>
    /\ intersects # << >>

\* C13: an attempt that has capacity and whose ray meets a wall is rejected
\* as 'too_far' exactly when the hit's distance is greater than CHALK_RANGE
\* (2.5 against 2.0); at a distance equal to CHALK_RANGE, or below it, the
\* mark is placed and the counter falls by 1.
C13_RangeIsInclusive ==
    [][\A hit \in Hits :
          KeyC(hit) /\ chalkCount > 0 /\ hit # << >> =>
             /\ intersects' = hit
             /\ reported' = << "too_far" >> <=> hit[1] > CHALK_RANGE
             /\ hit[1] > CHALK_RANGE => ChalkRejected("too_far")
             /\ hit[1] <= CHALK_RANGE => ChalkPlaced]_vars

\* a mark was just placed on a wall exactly CHALK_RANGE away
C13_Witness ==
    /\ intersects = << CHALK_RANGE >>
    /\ reported = << >>
    /\ chalkMarks = 1
    /\ chalkCount = CHALK_LIMIT - 1


\* C14: whenever the floor-marker counter is greater than zero, a keydown
\* of the floor-marker key records exactly one marker and lowers the counter
\* by exactly 1.
C14_DropNeedsOnlyCapacity ==
    [][KeyB /\ duckCount > 0
          => /\ ducks' = ducks + 1
             /\ duckCount' = duckCount - 1]_vars


-----------------------------------------------------------------------------
(* Properties of the teleport query *)

\* the cells of the array candidates of the last findTeleportPosition
CandidateCells ==
    {Cell(ringQuery[1].candidates[i].x, ringQuery[1].candidates[i].z) :
        i \in 1 .. Len(ringQuery[1].candidates)}

\* the Open cells whose shortest chain of 4-adjacent Open cells to the exit
\* cell has 3 or 4 steps
RingCells ==
    {c \in OpenCells(grid, width, height) :
        Distance(grid, c, ExitCell) \in {3, 4}}

\* C15: the candidates of findTeleportPosition are exactly the Open cells at
\* breadth-first distance 3 or 4 from the exit cell, each once and each
\* with its distance; the position returned is the centre of one of them.
C15_TeleportRing ==
    ringQuery # << >> =>
        LET q == ringQuery[1]
        IN /\ CandidateCells = RingCells
           /\ Cardinality(CandidateCells) = Len(q.candidates)
           /\ \A i \in 1 .. Len(q.candidates) :
                 q.candidates[i].dist =
                    Distance(grid, Cell(q.candidates[i].x, q.candidates[i].z),
                             ExitCell)
           /\ q.chosen # << >> =>
                 \E c \in RingCells :
                    /\ q.chosen[1].x = c.x * CELL_SIZE
                    /\ q.chosen[1].z = c.z * CELL_SIZE

\* the player was teleported to a cell 4 steps from the exit, and there are
\* cells at 3 steps as well
C15_Witness ==
    /\ ringQuery # << >>
    /\ ringQuery[1].chosen # << >>
    /\ position = ringQuery[1].chosen[1]
    /\ Distance(grid, worldToGrid(position.x, position.z), ExitCell) = 4
    /\ \E c \in CandidateCells : Distance(grid, c, ExitCell) = 3


-----------------------------------------------------------------------------
(* Properties of sliding along a wall *)

\* the agent box at the position meets a wall box of the maze, touching
\* counted
MeetsWall(pos) ==
    \E i \in 1 .. Len(mazeBoxes) : ~Apart(AgentBox(pos), mazeBoxes[i])

\* the trial position of the Z axis: the position after the X axis was
\* resolved, moved by the Z component
TrialZ(pos, m) ==
    IF MeetsWall([pos EXCEPT !.x = @ + m.x])
    THEN [pos EXCEPT !.z = @ + m.z]
    ELSE [pos EXCEPT !.x = @ + m.x, !.z = @ + m.z]

\* C16: at every position the player reaches, for every diagonal movement:
\* if its X trial position (the position moved by the X component) meets a
\* wall while its Z trial position (the position after the X axis was
\* resolved, moved by the Z component) does not, moveWithCollision leaves x
\* as it was and adds the full Z component to z; if its X trial position is
\* free while its Z trial position meets a wall, moveWithCollision adds the
\* full X component to x and leaves z as it was.
C16_SlidesAlongWall ==
    pc = "done" =>
        \A m \in {d \in Movements : d.x # 0 /\ d.z # 0} :
           LET blockedX == MeetsWall([position EXCEPT !.x = @ + m.x])
               blockedZ == MeetsWall(TrialZ(position, m))
               moved == moveWithCollision(position, m, playerBoxes)
           IN /\ blockedX /\ ~blockedZ
                 => moved = [position EXCEPT !.z = @ + m.z]
              /\ ~blockedX /\ blockedZ
                 => moved = [position EXCEPT !.x = @ + m.x]

\* the player stands where a diagonal movement took it along a wall: the X
\* component ran into the wall and the Z component was applied in full
C16_Witness ==
    /\ pc = "done"
    /\ \E m \in Movements :
          LET before == [position EXCEPT !.z = @ - m.z]
          IN /\ m.x # 0 /\ m.z # 0
             /\ ~MeetsWall(before)
             /\ MeetsWall([before EXCEPT !.x = @ + m.x])
             /\ ~MeetsWall(position)
             /\ moveWithCollision(before, m, playerBoxes) = position


-----------------------------------------------------------------------------
(* Properties of the queries of a session *)

\* the Wall cells of the current grid
WallCells == AllCells(width, height) \ OpenCells(grid, width, height)

\* the box of one cell: a cell wide around the cell's centre, from the floor
\* to the wall height
CellBox(c) ==
    [min |-> Vec(c.x * CELL_SIZE - 5, 0, c.z * CELL_SIZE - 5),
     max |-> Vec(c.x * CELL_SIZE + 5, WALL_HEIGHT, c.z * CELL_SIZE + 5)]

\* the player's wall boxes are one box for each Wall cell of the current
\* grid, and no other box
BoxesMatchGrid ==
    /\ {playerBoxes[i] : i \in 1 .. Len(playerBoxes)} = {CellBox(c) : c \in WallCells}
    /\ Len(playerBoxes) = Cardinality(WallCells)

\* C17: in every state in which Game.update, the key P or the key O is let
\* through (isRunning and not isLoading), the player's wall boxes are
\* exactly one box per Wall cell of the current grid; the step that replaces
\* the grid also replaces the player's wall boxes, so that none of these
\* queries runs between the two.
C17_BoxesOfCurrentGrid ==
    /\ [](isRunning /\ ~isLoading => BoxesMatchGrid)
    /\ [][grid' # grid => BoxesMatchGrid']_vars

\* level 2, whose grid differs from that of level 1: the path was queried
\* from a position reached by teleport, and the game is running
C17_Witness ==
    /\ level = 2
    /\ isRunning
    /\ ~isLoading
    /\ isLocked
    /\ ringQuery # << >>
    /\ ringQuery[1].chosen = << position >>
    /\ pathQuery # << >>
    /\ pathQuery[1].origin = position
    /\ BoxesMatchGrid

\* C18: a keydown of P (findPath, showPath) or of O
\* (findTeleportPosition) leaves the grid, the maze's and the player's wall
\* boxes and the two marker counters as they were, and so does the fading
\* of the path; the grid changes only in the steps that generate a maze,
\* Game.init and Game.nextLevel.
C18_QueriesReadOnly ==
    [][/\ KeyP \/ KeyO \/ ClearPath
          => UNCHANGED << grid, width, height, mazeBoxes, playerBoxes,
                          duckCount, chalkCount >>
       /\ grid' # grid => GameInit \/ NextLevel]_vars

\* level 2 after both kinds of query: a path was shown from the cell the
\* player was teleported to
C18_Witness ==
    /\ level = 2
    /\ pc = "done"
    /\ ringQuery # << >>
    /\ ringQuery[1].chosen = << position >>
    /\ pathQuery # << >>
    /\ pathQuery[1].origin = position
    /\ pathQuery[1].shown
    /\ hintsRemaining = 0

\* C19: hintsRemaining stays within 0 .. 2; a keydown of P with hints left
\* lowers it by one when showPath shows a path and leaves it when there is
\* nothing to show, as when the agent's cell is the exit cell; a keydown of P
\* without hints left changes nothing; and it changes in no other step but
\* the level advance, which sets it to 2.
C19_HintsPerLevel ==
    /\ [](hintsRemaining \in 0 .. HINTS_PER_LEVEL)
    /\ [][/\ KeyP /\ hintsRemaining > 0
             => /\ pathQuery' # << >>
                /\ pathQuery'[1].origin = position
                /\ hintsRemaining' = IF pathQuery'[1].shown
                                     THEN hintsRemaining - 1
                                     ELSE hintsRemaining
                /\ worldToGrid(position.x, position.z) = ExitCell
                   => ~pathQuery'[1].shown
          /\ KeyP /\ hintsRemaining = 0
             => UNCHANGED << hintsRemaining, pathQuery >>
          /\ hintsRemaining' # hintsRemaining
             => \/ /\ level' = level + 1
                   /\ hintsRemaining' = HINTS_PER_LEVEL
                \/ /\ KeyP
                   /\ hintsRemaining' = hintsRemaining - 1
                   /\ pathQuery'[1].shown]_vars

\* level 2: one hint was used, and a keydown of P with the agent in the exit
\* cell, half a cell from its centre, showed nothing and cost nothing
C19_Witness ==
    /\ level = 2
    /\ ~hasWon
    /\ hintsRemaining = HINTS_PER_LEVEL - 1
    /\ pathQuery # << >>
    /\ pathQuery[1].origin = position
    /\ worldToGrid(position.x, position.z) = ExitCell
    /\ ~pathQuery[1].shown


-----------------------------------------------------------------------------
(* Properties of two paths of one maze *)

\* the grid cell of the origin of a path query
OriginCell(q) == worldToGrid(q.origin.x, q.origin.z)

\* C20: for two Open origin cells a and b of one grid, if the Manhattan
\* distance from a to the exit cell is at most that from b, the path
\* returned from a has at most as many cells as the path returned from b.
C20_ManhattanOrdersPaths ==
    Len(pathQuery) = 2 =>
        LET a == pathQuery[1]
            b == pathQuery[2]
        IN Manhattan(OriginCell(a), ExitCell) <= Manhattan(OriginCell(b), ExitCell)
              => Len(a.path) <= Len(b.path)

\* C20 as amended: for two Open origin cells a and b of one grid, if the
\* breadth-first distance over Open cells from a to the exit cell is at most
\* that from b, the path returned from a has at most as many cells as the
\* path returned from b.
C20_DistanceOrdersPaths ==
    Len(pathQuery) = 2 =>
        LET a == pathQuery[1]
            b == pathQuery[2]
        IN /\ a.path # << >>
           /\ b.path # << >>
           /\ Distance(grid, OriginCell(a), ExitCell)
                 <= Distance(grid, OriginCell(b), ExitCell)
              => Len(a.path) <= Len(b.path)

\* two paths of one maze, the one from the cell nearer to the exit by
\* breadth-first distance, though further by Manhattan distance, being the
\* shorter
C20_Witness ==
    /\ Len(pathQuery) = 2
    /\ Distance(grid, OriginCell(pathQuery[1]), ExitCell)
          < Distance(grid, OriginCell(pathQuery[2]), ExitCell)
    /\ Manhattan(OriginCell(pathQuery[1]), ExitCell)
          > Manhattan(OriginCell(pathQuery[2]), ExitCell)
    /\ Len(pathQuery[1].path) < Len(pathQuery[2].path)


-----------------------------------------------------------------------------
(* Properties of the floor marker's position *)

\* C21: a keydown of B that records a floor marker records it at the x and
\* z that Player.position has at that moment, whatever keydowns of B and O,
\* level advances and frames came before.
C21_DuckAtPlayer ==
    [][KeyB /\ ducks' = ducks + 1
          => duckPosition' = << [x |-> position.x, z |-> position.z] >>]_vars


-----------------------------------------------------------------------------
(* Properties of one call of moveWithCollision *)

\* C22: at every position the player reaches, for every movement:
\* moveWithCollision adds the X component exactly when the position moved by
\* it, at the current z, meets no wall, and then adds the Z component
\* exactly when the position so reached, moved by the Z component, meets no
\* wall; so with both trial positions meeting a wall the position is
\* unchanged, with neither it is the position plus the movement, and y is
\* never changed.
C22_MoveWithCollision ==
    pc = "done" =>
        \A m \in Movements :
           LET blockedX == MeetsWall([position EXCEPT !.x = @ + m.x])
               blockedZ == MeetsWall(TrialZ(position, m))
               moved == moveWithCollision(position, m, playerBoxes)
           IN /\ moved.y = position.y
              /\ moved.x = IF blockedX THEN position.x ELSE position.x + m.x
              /\ moved.z = IF blockedZ THEN position.z ELSE position.z + m.z
              /\ blockedX /\ blockedZ => moved = position
              /\ ~blockedX /\ ~blockedZ
                 => moved = [position EXCEPT !.x = @ + m.x, !.z = @ + m.z]

\* away from the start, a position where one diagonal movement is blocked on
\* both axes and another is free on both
C22_Witness ==
    /\ pc = "done"
    /\ position # startPosition[1]
    /\ position.y = startPosition[1].y
    /\ \E m \in Movements :
          /\ m.x # 0 /\ m.z # 0
          /\ MeetsWall([position EXCEPT !.x = @ + m.x])
          /\ MeetsWall([position EXCEPT !.z = @ + m.z])
    /\ \E m \in Movements :
          /\ m.x # 0 /\ m.z # 0
          /\ ~MeetsWall([position EXCEPT !.x = @ + m.x])
          /\ ~MeetsWall([position EXCEPT !.x = @ + m.x, !.z = @ + m.z])
          /\ Followed([position EXCEPT !.x = @ + m.x, !.z = @ + m.z])


-----------------------------------------------------------------------------
(* Properties of winning and advancing *)

\* C23: a frame that brings the running agent within 0.5 of the exit fires
\* Game.win, which starts one timer; no second timer is started for the
\* level, so exactly one timer is pending while hasWon holds and none
\* otherwise; the level changes only by the timer's Game.nextLevel, by
\* exactly 1, from a state with hasWon, and leaves hasWon and isLoading
\* cleared; and below the last level followed every win is eventually
\* followed by that level advance, whatever clicks, keydowns and pointer-lock
\* changes come in between.
C23_OneAdvancePerWin ==
    /\ [](timers = IF hasWon THEN 1 ELSE 0)
    /\ [][/\ (\E m \in KeyStrides : Update(m))
                /\ checkExitCollision(position', exitPosition)
             => /\ ~hasWon
                /\ hasWon'
                /\ ~isRunning'
                /\ timers' = timers + 1
                /\ level' = level
          /\ hasWon' /\ ~hasWon
             => /\ isRunning
                /\ ~isLoading
                /\ checkExitCollision(position', exitPosition)
          /\ level' # level
             => /\ hasWon
                /\ level' = level + 1
                /\ timers' = timers - 1
                /\ ~hasWon'
                /\ ~isLoading']_vars
    /\ \A lv \in 1 .. MaxSessionLevel - 1 :
          (hasWon /\ level = lv) ~> (level = lv + 1 /\ ~hasWon /\ ~isLoading)

\* level 2 is running: level 1 was won once and advanced from once
C23_Witness ==
    /\ level = 2
    /\ ~hasWon
    /\ ~isLoading
    /\ timers = 0
    /\ isRunning
    /\ isLocked
    /\ position = startPosition[1]


-----------------------------------------------------------------------------
(* Properties of the marker lists *)

\* C24: in every state the recorded floor markers and duckCount add up to
\* 8, the recorded wall marks and chalkCount add up to 12, and there are two
\* duck lights for each recorded floor marker; within a level a step leaves a
\* marker list as it is or appends one marker to it, and the reset of the
\* level advance empties the lists.
C24_MarkersAndCounters ==
    /\ [](/\ ducks + duckCount = DUCK_LIMIT
          /\ chalkMarks + chalkCount = CHALK_LIMIT
          /\ duckLights = 2 * ducks
          /\ ducks = 0 <=> duckPosition = << >>)
    /\ [][IF level' # level
          THEN /\ ducks' = 0
               /\ duckLights' = 0
               /\ chalkMarks' = 0
               /\ duckPosition' = << >>
          ELSE /\ ducks' \in {ducks, ducks + 1}
               /\ chalkMarks' \in {chalkMarks, chalkMarks + 1}
               /\ ducks' = ducks => duckPosition' = duckPosition]_vars

\* level 2, after the reset emptied the lists of level 1: three floor markers
\* and five wall marks are placed
C24_Witness ==
    /\ level = 2
    /\ ducks = 3
    /\ duckLights = 6
    /\ duckCount = DUCK_LIMIT - 3
    /\ chalkMarks = 5
    /\ chalkCount = CHALK_LIMIT - 5


-----------------------------------------------------------------------------
(* Properties of the teleport position *)

\* C25: on every generated maze findTeleportPosition returns a position and
\* never null: some Open cell is at breadth-first distance 3 or 4 from the
\* exit cell, the array candidates is not empty, and for every candidate the
\* random index can pick, the agent box centred on the position returned
\* meets no wall box; the same holds of the position the last call returned.
C25_TeleportNeverNull ==
    pc = "done" =>
        LET candidates ==
                TeleportCandidates(exitPosition[1], grid, width, height)
        IN /\ RingCells # {}
           /\ Len(candidates) > 0
           /\ \A r \in RandomBelow(Len(candidates)) :
                 LET teleportPos == findTeleportPosition(candidates, r)
                 IN /\ teleportPos # << >>
                    /\ ~MeetsWall(teleportPos[1])
           /\ ringQuery # << >> =>
                 /\ ringQuery[1].chosen # << >>
                 /\ ~MeetsWall(ringQuery[1].chosen[1])

\* the player was teleported to a cell 3 steps from the exit, one of several
\* candidates, and stands clear of every wall box
C25_Witness ==
    /\ pc = "done"
    /\ ringQuery # << >>
    /\ Len(ringQuery[1].candidates) > 1
    /\ ringQuery[1].chosen = << position >>
    /\ Distance(grid, worldToGrid(position.x, position.z), ExitCell) = 3
    /\ ~MeetsWall(position)


-----------------------------------------------------------------------------
(* Properties of walking with short steps *)

\* the integers from a to b, in either order
Between(a, b) == IF a <= b THEN a .. b ELSE b .. a

\* the cells a movement crosses: from the cell nearest its first position
\* along the X axis, then along the Z axis to the cell nearest its last one
Crossed(from, to) ==
    LET a == worldToGrid(from.x, from.z)
        b == worldToGrid(to.x, to.z)
    IN {Cell(x, a.z) : x \in Between(a.x, b.x)}
          \cup {Cell(b.x, z) : z \in Between(a.z, b.z)}

\* C26: with every component of every movement below 1.6 in magnitude,
\* after any sequence of moveWithCollision calls from the start position the
\* grid cell nearest the player (worldToGrid) lies inside the grid and is
\* Open, and every cell a movement crosses is an Open cell of the grid: the
\* player enters no Wall cell, passes through none, jumps over none and does
\* not leave the maze.
C26_StaysInOpenCells ==
    /\ [](pc = "done" =>
             LET c == worldToGrid(position.x, position.z)
             IN /\ c.x \in 0 .. width - 1
                /\ c.z \in 0 .. height - 1
                /\ grid[c.z][c.x] = 0)
    /\ [][pc = "done" /\ pc' = "done" =>
             \A c \in Crossed(position, position') : IsOpen(grid, c)]_vars

\* the player has walked from the start cell into a room two cells away,
\* and a longest step from here is stopped by a wall
C26_Witness ==
    /\ pc = "done"
    /\ Manhattan(worldToGrid(position.x, position.z),
                 worldToGrid(startPosition[1].x, startPosition[1].z)) >= 2
    /\ \E m \in Walks :
          /\ m.x = 15
          /\ m.z = 0
          /\ moveWithCollision(position, m, playerBoxes) = position


-----------------------------------------------------------------------------
(* Properties of the marker keys after a win *)

\* C27: in every state NavigationAids.isActive implies Game.isRunning, and
\* a keydown of a marker key (B or C) made after win() has fired or while
\* the next level is loading places no marker and changes no counter, in
\* every interleaving of the key events with the pointer-lock change event.
C27_ActiveOnlyWhileRunning ==
    /\ [](isActive => isRunning)
    /\ [][(KeyB \/ \E hit \in Hits : KeyC(hit)) /\ (hasWon \/ isLoading)
             => UNCHANGED << ducks, duckLights, duckCount, chalkMarks,
                             chalkCount >>]_vars

=============================================================================
